---- MODULE Spec2Model ----
(***************************************************************************)
(* Model of github.com/xinxindu/logger: an asynchronous, time-rotating     *)
(* file logger.  Producers send records on RecordCh; one writer goroutine  *)
(* drains it, rotates the file when the window expired, sweeps old files   *)
(* and appends the record.  Two more goroutines serve EndCh and ExitCh.    *)
(*                                                                         *)
(* Strings are sequences of ASCII codes, so that sort.Strings is the       *)
(* byte-wise order and Regexp.MatchString is a match on characters.  The   *)
(* clock counts seconds from the epoch and stays inside January 1970       *)
(* (UTC), where time.Format renders "1970-01-DD_HH-mm" exactly.            *)
(***************************************************************************)
EXTENDS Integers, Sequences, FiniteSets, TLC

\* ------------------------------------------------------------------ bounds
MaxTicks == 2          \* clock advances per behaviour
MaxRecords == 2        \* enqueue calls per caller
MaxCloses == 2         \* Close() calls per behaviour
MaxEnds == 1           \* sends on EndCh per behaviour
MaxFaults == 1         \* injected file-system failures per behaviour
MaxBackup == 1         \* largest backupCount passed to InitLogger
MaxWindows == 2        \* windows before the time of the first expiry computation

\* ---------------------------------------------------------- program constants
LevelDebug == 0
LevelInfo == 1
LevelWarning == 2
LevelError == 3
RecordChCap == 1024
EndChCap == 1
ExitChCap == 1
\* math.MaxInt64, held to the largest integer TLC represents; GetExpiryInterval
\* returns it only for a token InitLogger has already rejected
MaxInt64 == 2147483647

Levels == {LevelDebug, LevelInfo, LevelWarning, LevelError}

\* The goroutines: the three started by InitLogger and the callers of the API,
\* a producer (the enqueue methods) and a controller (Close, the end signal).
Producers == {"p1"}
Controllers == {"k1"}
Callers == Producers \cup Controllers
Handlers == {"writer", "endh", "exith"}
Goroutines == Handlers \cup Callers

\* when arguments passed to InitLogger: the four valid tokens and an invalid one
WhenArgs == {"M", "H", "D", "W", "X"}

\* -------------------------------------------------------------- pure helpers
\* (a validation that lets every token through)
IsWhenValidLax(when) == when \in WhenArgs

IsWhenValid(when) == when \in {"M", "H", "D", "W"}

GetExpiryInterval(when) ==
  CASE when = "M" -> 60
    [] when = "H" -> 60 * 60
    [] when = "D" -> 60 * 60 * 24
    [] when = "W" -> 60 * 60 * 24 * 7
    [] OTHER -> MaxInt64

\* two decimal digits, zero padded
Fmt2(n) == <<48 + ((n \div 10) % 10), 48 + (n % 10)>>

\* time.Unix(ts, 0).Format("2006-01-02"), ts inside January 1970 UTC
FormatDay(ts) == <<49, 57, 55, 48, 45, 48, 49, 45>> \o Fmt2((ts \div 86400) + 1)
\* ... .Format("2006-01-02_15")
FormatHour(ts) == FormatDay(ts) \o <<95>> \o Fmt2((ts \div 3600) % 24)
\* ... .Format("2006-01-02_15-04")
FormatMinute(ts) == FormatHour(ts) \o <<45>> \o Fmt2((ts \div 60) % 60)

GetFileSuffixName(l) ==
  CASE l.When = "M" -> FormatMinute(l.ExpiryTs)
    [] l.When = "H" -> FormatHour(l.ExpiryTs)
    [] l.When = "D" -> FormatDay(l.ExpiryTs)
    [] OTHER -> <<>>

\* "%s/%s_%s.log": the name inside FileDir (every file of the model lives there)
GetAbsoluteFilePath(l) ==
  l.FileName \o <<95>> \o GetFileSuffixName(l) \o <<46, 108, 111, 103>>

\* A compiled pattern is a sequence of tokens: an ASCII code, or DigitClass (\d).
DigitClass == -1
PatDay == <<DigitClass, DigitClass, DigitClass, DigitClass, 45,
            DigitClass, DigitClass, 45, DigitClass, DigitClass>>
PatHour == PatDay \o <<95, DigitClass, DigitClass>>
PatMinute == PatHour \o <<45, DigitClass, DigitClass>>
NilRegexp == <<>>

\* GetRegexp: [reg, err]; "W" falls through the switch to the error return
GetRegexp(l) ==
  CASE l.When = "M" ->
         [reg |-> l.FileName \o <<95>> \o PatMinute \o <<46, 108, 111, 103>>, err |-> FALSE]
    [] l.When = "H" ->
         [reg |-> l.FileName \o <<95>> \o PatHour \o <<46, 108, 111, 103>>, err |-> FALSE]
    [] l.When = "D" ->
         [reg |-> l.FileName \o <<95>> \o PatDay \o <<46, 108, 111, 103>>, err |-> FALSE]
    [] OTHER -> [reg |-> NilRegexp, err |-> TRUE]

\* Regexp.MatchString for a pattern anchored with ^ and $
MatchString(reg, s) ==
  /\ Len(s) = Len(reg)
  /\ \A i \in 1..Len(reg) :
       IF reg[i] = DigitClass THEN s[i] \in 48..57 ELSE s[i] = reg[i]

\* byte-wise string order a < b, as sort.Strings compares
RECURSIVE StrLess(_, _)
StrLess(a, b) ==
  IF b = <<>> THEN FALSE
  ELSE IF a = <<>> THEN TRUE
  ELSE IF Head(a) # Head(b) THEN Head(a) < Head(b)
  ELSE StrLess(Tail(a), Tail(b))

\* sort.Strings of a set of distinct names: ascending sequence
RECURSIVE SortStrings(_)
SortStrings(S) ==
  IF S = {} THEN <<>>
  ELSE LET m == CHOOSE x \in S : \A y \in S \ {x} : StrLess(x, y)
       IN  <<m>> \o SortStrings(S \ {m})

\* ------------------------------------------------------------- file system
\* inodes: the files ever present in FileDir, [name, isDir, linked, content];
\*   an unlinked inode is a removed file (still writable through open handles).
\* handles: the *os.File values ever opened, [ino, closed]; File = 0 is nil.
Lookup(ins, name) ==
  LET S == {i \in 1..Len(ins) : ins[i].linked /\ ins[i].name = name}
  IN  IF S = {} THEN 0 ELSE CHOOSE i \in S : TRUE

\* ioutil.ReadDir: the entries of FileDir
ReadDir(ins) == {[name |-> ins[i].name, isDir |-> ins[i].isDir] :
                   i \in {j \in 1..Len(ins) : ins[j].linked}}

\* os.OpenFile(path, O_RDWR|O_CREATE|O_APPEND): never truncates; creates the
\* file when absent; fails on a directory or when the system call fails (ok).
OpenFile(ins, hs, name, ok) ==
  LET i == Lookup(ins, name) IN
  IF ~ok \/ (i # 0 /\ ins[i].isDir)
  THEN [inodes |-> ins, handles |-> hs, file |-> 0, err |-> TRUE]
  ELSE IF i = 0
  THEN [inodes |-> Append(ins, [name |-> name, isDir |-> FALSE,
                                linked |-> TRUE, content |-> <<>>]),
        handles |-> Append(hs, [ino |-> Len(ins) + 1, closed |-> FALSE]),
        file |-> Len(hs) + 1, err |-> FALSE]
  ELSE [inodes |-> ins,
        handles |-> Append(hs, [ino |-> i, closed |-> FALSE]),
        file |-> Len(hs) + 1, err |-> FALSE]

\* os.Remove of every name in names (ok = FALSE: the removals fail)
RemoveAll(ins, names, ok) ==
  IF ~ok THEN ins
  ELSE [i \in 1..Len(ins) |->
          IF ins[i].linked /\ ins[i].name \in names
          THEN [ins[i] EXCEPT !.linked = FALSE] ELSE ins[i]]

\* the match list of deleteOldFiles: non-directories whose name matches, sorted
MatchFileList(l, fileList) ==
  SortStrings({e.name : e \in {f \in fileList :
                                 ~f.isDir /\ MatchString(l.Regexp, f.name)}})

SubSeqSet(s, n) == {s[i] : i \in 1..n}

\* (a sweep that removes the deleteCount largest names)
deleteOldFilesNewest(l, ins, rmOK) ==
  LET matchFileList == MatchFileList(l, ReadDir(ins))
      deleteCount == Len(matchFileList) - l.BackupCount
  IN  IF deleteCount > 0
      THEN RemoveAll(ins, {matchFileList[i] :
                             i \in (l.BackupCount + 1)..Len(matchFileList)}, rmOK)
      ELSE ins

\* deleteOldFiles after a successful ReadDir: remove the deleteCount smallest
deleteOldFiles(l, ins, rmOK) ==
  LET matchFileList == MatchFileList(l, ReadDir(ins))
      deleteCount == Len(matchFileList) - l.BackupCount
  IN  IF deleteCount > 0
      THEN RemoveAll(ins, SubSeqSet(matchFileList, deleteCount), rmOK)
      ELSE ins

\* (an expiry rounded up to the boundary at or after t)
UpdateExpiryTsCeil(l, t) ==
  [l EXCEPT !.ExpiryTs = t + ((l.WhenInterval - (t % l.WhenInterval)) % l.WhenInterval)]

\* UpdateExpiryTs at wall-clock time t
UpdateExpiryTs(l, t) ==
  [l EXCEPT !.ExpiryTs = t - (t % l.WhenInterval) + l.WhenInterval]

\* IsRotate at wall-clock time t
IsRotate(l, t) == t > l.ExpiryTs

\* InitRotate at time t: new expiry, open the file of the new window, store the
\* handle (nil when the open failed); the error is printed and nil is returned.
InitRotate(l, ins, hs, t, openOK) ==
  LET l1 == UpdateExpiryTs(l, t)
      o == OpenFile(ins, hs, GetAbsoluteFilePath(l1), openOK)
  IN  [logger |-> [l1 EXCEPT !.File = o.file],
       inodes |-> o.inodes, handles |-> o.handles, err |-> FALSE]

\* File.Close(): [handles, err]; nil and already-closed files return an error
FileClose(hs, f) ==
  IF f = 0 \/ hs[f].closed
  THEN [handles |-> hs, err |-> TRUE]
  ELSE [handles |-> [hs EXCEPT ![f].closed = TRUE], err |-> FALSE]

\* fmt.Fprintf(l.File, r.String()): [inodes, err]
Fprintf(ins, hs, f, r, ok) ==
  IF f = 0 \/ hs[f].closed \/ ~ok
  THEN [inodes |-> ins, err |-> TRUE]
  ELSE [inodes |-> [ins EXCEPT ![hs[f].ino].content = Append(@, r)],
        err |-> FALSE]

\* ----------------------------------------------------------------- channels
NilChan == [made |-> FALSE, closed |-> FALSE, buf |-> <<>>]
MakeChan == [made |-> TRUE, closed |-> FALSE, buf |-> <<>>]
CloseChan(ch) == [ch EXCEPT !.closed = TRUE]
\* close of a nil or closed channel panics
ClosePanics(ch) == ~ch.made \/ ch.closed
\* (a send that takes one record more than the capacity)
CanSendOverfull(ch, cap) == ch.made /\ ~ch.closed /\ Len(ch.buf) <= cap
\* (a receive that yields nothing once the channel is closed)
CanRecvOpen(ch) == ch.made /\ ~ch.closed /\ ch.buf # <<>>
\* a send proceeds when there is room, and panics once the channel is closed
CanSend(ch, cap) == ch.made /\ ~ch.closed /\ Len(ch.buf) < cap
SendPanics(ch) == ch.made /\ ch.closed
\* range over a channel: a value while buffered, the end once closed and empty
CanRecv(ch) == ch.made /\ ch.buf # <<>>
RangeEnds(ch) == ch.made /\ ch.closed /\ ch.buf = <<>>
\* (a receive that takes the newest record)
RecvNewest(ch) == ch.buf[Len(ch.buf)]
RecvHead(ch) == Head(ch.buf)
RecvRest(ch) == [ch EXCEPT !.buf = Tail(@)]

\* ------------------------------------------------------------------- state
VARIABLES
  proc,       \* "running", "exited" (os.Exit) or "panicked"
  panicMsg,   \* the runtime panic that ended the process, or "none"
  panicAt,    \* the channel the panicking operation was on
  logger,     \* the package-level *Logger (nil: isNil)
  RecordCh, EndCh, ExitCh,
  now,        \* wall clock, seconds
  inodes, handles,
  pc,         \* position of each goroutine
  cur,        \* the writer's r and what it observed for it (at: the time of
              \* the InitRotate made for it)
  pend,       \* the record a caller is sending
  written,    \* history: the successful writes, in order
  sent,       \* history: the records sent on RecordCh, in order
  closedAt,   \* history: Len(sent) at the first call of Close(), or -1
  issued,     \* records created per producer
  plan,       \* the levels of the calls each producer has still to make
  budget,     \* what the environment may still do: clock advances, Close
              \* calls, end signals, failing system calls
  initArg, initRet,   \* InitLogger's when argument and its outcome
  lastSweep   \* history: directory before and after the latest sweep

vars == <<proc, panicMsg, panicAt, logger, RecordCh, EndCh, ExitCh, now, inodes, handles,
          pc, cur, pend, written, sent, closedAt, issued, plan, budget,
          initArg, initRet, lastSweep>>

FileNameArg == <<97>>   \* the base name "a"

NilLogger ==
  [isNil |-> TRUE, FileName |-> <<>>, File |-> 0, Level |-> 0, When |-> "",
   WhenInterval |-> 0, Ts |-> 0, ExpiryTs |-> 0, BackupCount |-> 0,
   Regexp |-> NilRegexp]

NoRecord == [RLevel |-> 0, by |-> "none", seq |-> 0]
NoCur == [r |-> NoRecord, t |-> 0, exp |-> 0, file |-> 0, rotate |-> FALSE,
          swept |-> FALSE, reopened |-> FALSE, at |-> 0]
NoSweep == [ran |-> FALSE, before |-> {}, after |-> {}, k |-> 0, rmOK |-> TRUE,
            reg |-> NilRegexp]

\* files that may be in FileDir before the logger starts: an older file of each
\* window kind, a file of another base name, and a directory
OldDayFile == <<97, 95>> \o <<49, 57, 54, 57, 45, 49, 50, 45, 51, 49>> \o <<46, 108, 111, 103>>
OldHourFile == <<97, 95>> \o <<49, 57, 54, 57, 45, 49, 50, 45, 51, 49, 95, 50, 51>> \o <<46, 108, 111, 103>>
OldMinuteFile == <<97, 95>> \o <<49, 57, 54, 57, 45, 49, 50, 45, 51, 49, 95, 50, 51, 45, 53, 57>> \o <<46, 108, 111, 103>>
OtherFile == <<98, 95>> \o <<49, 57, 54, 57, 45, 49, 50, 45, 51, 49>> \o <<46, 108, 111, 103>>

MkFile(name) == [name |-> name, isDir |-> FALSE, linked |-> TRUE, content |-> <<>>]
MkDir(name) == [name |-> name, isDir |-> TRUE, linked |-> TRUE, content |-> <<>>]

InitDirs == { <<MkFile(OldDayFile), MkFile(OldHourFile), MkFile(OldMinuteFile),
                MkFile(OtherFile)>> }

InitWith(dirs, plans, budgets) ==
  /\ proc = "running" /\ panicMsg = "none" /\ panicAt = "none"
  /\ logger = NilLogger
  /\ RecordCh = NilChan /\ EndCh = NilChan /\ ExitCh = NilChan
  /\ now = 0
  /\ inodes \in dirs /\ handles = <<>>
  /\ pc = [g \in Goroutines |-> IF g \in Callers THEN "idle" ELSE "none"]
  /\ cur = NoCur
  /\ pend = [c \in Producers |-> NoRecord]
  /\ written = <<>> /\ sent = <<>> /\ closedAt = -1
  /\ issued = [c \in Producers |-> 0]
  /\ plan \in [Producers -> plans]
  /\ budget \in budgets
  /\ initArg = "" /\ initRet = "none"
  /\ lastSweep = NoSweep

\* the calls of a producer: MaxRecords enqueue calls, the levels in turn from s
LevelPlan(s) == [i \in 1..MaxRecords |-> (s + i - 1) % 4]
Plans == {LevelPlan(LevelDebug), LevelPlan(LevelWarning)}

\* what the environment does in a behaviour: it lets the windows expire, or
\* shuts the logger down, or ends the file by hand, or fails a system call
Budgets ==
  { [ticks |-> MaxTicks, closes |-> 0, ends |-> 0, faults |-> 0],
    [ticks |-> 0, closes |-> MaxCloses, ends |-> 0, faults |-> 0],
    [ticks |-> 1, closes |-> 1, ends |-> MaxEnds, faults |-> 0],
    [ticks |-> 1, closes |-> 0, ends |-> 0, faults |-> MaxFaults] }

Init == InitWith(InitDirs, Plans, Budgets)

\* ------------------------------------------------------------------ actions
Running == proc = "running"

\* an injected failure of a system call is drawn while the budget lasts
Outcomes == IF budget.faults > 0 THEN {TRUE, FALSE} ELSE {TRUE}
Spend(ok) == IF ok THEN budget ELSE [budget EXCEPT !.faults = @ - 1]

Panic(msg, ch) == proc' = "panicked" /\ panicMsg' = msg /\ panicAt' = ch

\* logger = &Logger{...}: the fields InitLogger sets before GetRegexp
NewLogger(when, k, level) ==
  [isNil |-> FALSE, FileName |-> FileNameArg, File |-> 0, Level |-> level,
   When |-> when, WhenInterval |-> GetExpiryInterval(when), Ts |-> 0,
   ExpiryTs |-> 0, BackupCount |-> k, Regexp |-> NilRegexp]

\* InitLogger(when, backupCount, level, fileDir, fileName).  No other goroutine
\* holds the handle before it returns, so it is one step; the ExitLogger it
\* calls when GetRegexp fails closes the fresh channels and exits the process.
InitLogger(when, k, level) ==
  /\ Running /\ initRet = "none"
  /\ initArg' = when
  /\ IF ~IsWhenValid(when)
     THEN /\ initRet' = "err"
          /\ UNCHANGED <<proc, panicMsg, panicAt, logger, RecordCh, EndCh,
                         ExitCh, inodes, handles, pc, budget>>
     ELSE LET l0 == NewLogger(when, k, level)
              g == GetRegexp(l0)
          IN  IF g.err
              THEN /\ logger' = l0
                   /\ RecordCh' = CloseChan(MakeChan)
                   /\ EndCh' = CloseChan(MakeChan)
                   /\ ExitCh' = CloseChan(MakeChan)
                   /\ proc' = "exited"
                   /\ initRet' = "exit"
                   /\ UNCHANGED <<panicMsg, panicAt, inodes, handles, pc, budget>>
              ELSE \E openOK \in Outcomes :
                   LET ir == InitRotate([l0 EXCEPT !.Regexp = g.reg], inodes,
                                        handles, now, openOK)
                   IN  /\ logger' = ir.logger
                       /\ inodes' = ir.inodes
                       /\ handles' = ir.handles
                       /\ budget' = Spend(openOK)
                       /\ RecordCh' = MakeChan /\ EndCh' = MakeChan
                       /\ ExitCh' = MakeChan
                       /\ pc' = [g2 \in Goroutines |->
                                   IF g2 \in Handlers THEN "recv" ELSE pc[g2]]
                       /\ initRet' = "ok"
                       /\ UNCHANGED <<proc, panicMsg, panicAt>>
  /\ UNCHANGED <<now, cur, pend, written, issued, lastSweep, plan, sent, closedAt>>

InitLoggerCall == \E when \in WhenArgs, k \in 0..MaxBackup : InitLogger(when, k, LevelInfo)

\* time.Now() moves on: to the second before the expiry, to the expiry, or past it
TickTargets(l) == {l.ExpiryTs - 1, l.ExpiryTs, l.ExpiryTs + 1}

Tick ==
  /\ Running /\ ~logger.isNil /\ budget.ticks > 0
  /\ \E t \in TickTargets(logger) : t > now /\ now' = t
  /\ budget' = [budget EXCEPT !.ticks = @ - 1]
  /\ UNCHANGED <<proc, panicMsg, panicAt, logger, RecordCh, EndCh, ExitCh,
                 inodes, handles, pc, cur, pend, written, issued, initArg,
                 initRet, lastSweep, plan, sent, closedAt>>

\* (an enqueue method that drops a record below the configured level)
LogfFiltered(c, level) ==
  /\ Running /\ initRet = "ok" /\ pc[c] = "idle"
  /\ plan[c] # <<>> /\ Head(plan[c]) = level
  /\ plan' = [plan EXCEPT ![c] = Tail(@)]
  /\ pend' = [pend EXCEPT ![c] = IF level < logger.Level THEN NoRecord
                                  ELSE [RLevel |-> level, by |-> c,
                                        seq |-> issued[c] + 1]]
  /\ issued' = [issued EXCEPT ![c] = @ + 1]
  /\ pc' = [pc EXCEPT ![c] = IF level < logger.Level THEN "idle" ELSE "send"]
  /\ UNCHANGED <<proc, panicMsg, panicAt, logger, RecordCh, EndCh, ExitCh, now,
                 inodes, handles, cur, written, initArg, initRet, lastSweep,
                 budget, sent, closedAt>>

\* Debugf/Infof/Warnf/Errorf up to the send: build the record.  RTime, RMsg,
\* File and LineNum travel unchanged and are stood for by the caller and the
\* sequence number of the call.
Logf(c, level) ==
  /\ Running /\ initRet = "ok" /\ pc[c] = "idle"
  /\ plan[c] # <<>> /\ Head(plan[c]) = level
  /\ plan' = [plan EXCEPT ![c] = Tail(@)]
  /\ pend' = [pend EXCEPT ![c] = [RLevel |-> level, by |-> c,
                                  seq |-> issued[c] + 1]]
  /\ issued' = [issued EXCEPT ![c] = @ + 1]
  /\ pc' = [pc EXCEPT ![c] = "send"]
  /\ UNCHANGED <<proc, panicMsg, panicAt, logger, RecordCh, EndCh, ExitCh, now,
                 inodes, handles, cur, written, initArg, initRet, lastSweep,
                 budget, sent, closedAt>>

Debugf(c) == Logf(c, LevelDebug)
Infof(c) == Logf(c, LevelInfo)
Warnf(c) == Logf(c, LevelWarning)
Errorf(c) == Logf(c, LevelError)

\* l.RecordCh <- r
SendRecord(c) ==
  /\ Running /\ pc[c] = "send"
  /\ IF SendPanics(RecordCh)
     THEN /\ Panic("send on closed channel", "RecordCh")
          /\ UNCHANGED <<RecordCh, pc, pend, sent>>
     ELSE /\ CanSend(RecordCh, RecordChCap)
          /\ RecordCh' = [RecordCh EXCEPT !.buf = Append(@, pend[c])]
          /\ pc' = [pc EXCEPT ![c] = "idle"]
          /\ pend' = [pend EXCEPT ![c] = NoRecord]
          /\ sent' = Append(sent, pend[c])
          /\ UNCHANGED <<proc, panicMsg, panicAt>>
  /\ UNCHANGED <<logger, EndCh, ExitCh, now, inodes, handles, cur, written,
                 issued, initArg, initRet, lastSweep, budget, plan, closedAt>>

\* Close() is called
Close(c) ==
  /\ Running /\ initRet = "ok" /\ pc[c] = "idle" /\ budget.closes > 0
  /\ pc' = [pc EXCEPT ![c] = "closing"]
  /\ budget' = [budget EXCEPT !.closes = @ - 1]
  /\ closedAt' = IF closedAt < 0 THEN Len(sent) ELSE closedAt
  /\ UNCHANGED <<proc, panicMsg, panicAt, logger, RecordCh, EndCh, ExitCh, now,
                 inodes, handles, cur, pend, written, issued, initArg, initRet,
                 lastSweep, plan, sent>>

\* l.ExitCh <- true
SendExit(c) ==
  /\ Running /\ pc[c] = "closing"
  /\ IF SendPanics(ExitCh)
     THEN /\ Panic("send on closed channel", "ExitCh")
          /\ UNCHANGED <<ExitCh, pc>>
     ELSE /\ CanSend(ExitCh, ExitChCap)
          /\ ExitCh' = [ExitCh EXCEPT !.buf = Append(@, TRUE)]
          /\ pc' = [pc EXCEPT ![c] = "idle"]
          /\ UNCHANGED <<proc, panicMsg, panicAt>>
  /\ UNCHANGED <<logger, RecordCh, EndCh, now, inodes, handles, cur, pend,
                 written, issued, initArg, initRet, lastSweep, budget, plan,
                 sent, closedAt>>

\* a holder of the handle decides to end the current file (EndCh is exported)
SignalEnd(c) ==
  /\ Running /\ initRet = "ok" /\ pc[c] = "idle" /\ budget.ends > 0
  /\ pc' = [pc EXCEPT ![c] = "ending"]
  /\ budget' = [budget EXCEPT !.ends = @ - 1]
  /\ UNCHANGED <<proc, panicMsg, panicAt, logger, RecordCh, EndCh, ExitCh, now,
                 inodes, handles, cur, pend, written, issued, initArg, initRet,
                 lastSweep, plan, sent, closedAt>>

\* l.EndCh <- true
SendEnd(c) ==
  /\ Running /\ pc[c] = "ending"
  /\ IF SendPanics(EndCh)
     THEN /\ Panic("send on closed channel", "EndCh")
          /\ UNCHANGED <<EndCh, pc>>
     ELSE /\ CanSend(EndCh, EndChCap)
          /\ EndCh' = [EndCh EXCEPT !.buf = Append(@, TRUE)]
          /\ pc' = [pc EXCEPT ![c] = "idle"]
          /\ UNCHANGED <<proc, panicMsg, panicAt>>
  /\ UNCHANGED <<logger, RecordCh, ExitCh, now, inodes, handles, cur, pend,
                 written, issued, initArg, initRet, lastSweep, budget, plan,
                 sent, closedAt>>

\* ------------------------------------------------------------- writer loop
\* for r := range logger.RecordCh { if logger.IsRotate() ... : take the next
\* record and test the expiry; the loop ends once the channel is closed and empty

WriterRecv ==
  /\ Running /\ pc["writer"] = "recv"
  /\ \/ /\ CanRecv(RecordCh)
        /\ RecordCh' = RecvRest(RecordCh)
        /\ cur' = [r |-> RecvHead(RecordCh), t |-> now, exp |-> logger.ExpiryTs,
                   file |-> logger.File, rotate |-> IsRotate(logger, now),
                   swept |-> FALSE, reopened |-> FALSE, at |-> 0]
        /\ pc' = [pc EXCEPT !["writer"] =
                    IF IsRotate(logger, now) THEN "sweep" ELSE "write"]
     \/ /\ RangeEnds(RecordCh)
        /\ pc' = [pc EXCEPT !["writer"] = "done"]
        /\ UNCHANGED <<RecordCh, cur>>
  /\ UNCHANGED <<proc, panicMsg, panicAt, logger, EndCh, ExitCh, now, inodes,
                 handles, pend, written, issued, initArg, initRet, lastSweep,
                 budget, plan, sent, closedAt>>

\* logger.deleteOldFiles(): a failed ReadDir calls ExitLogger
WriterSweep ==
  /\ Running /\ pc["writer"] = "sweep"
  /\ \E readOK \in Outcomes :
       IF ~readOK
       THEN /\ pc' = [pc EXCEPT !["writer"] = "x_file"]
            /\ budget' = Spend(readOK)
            /\ UNCHANGED <<inodes, cur, lastSweep>>
       ELSE \E rmOK \in Outcomes :
            /\ inodes' = deleteOldFiles(logger, inodes, rmOK)
            /\ budget' = Spend(rmOK)
            /\ lastSweep' = [ran |-> TRUE, before |-> ReadDir(inodes),
                             after |-> ReadDir(inodes'),
                             k |-> logger.BackupCount, rmOK |-> rmOK,
                             reg |-> logger.Regexp]
            /\ cur' = [cur EXCEPT !.swept = TRUE]
            /\ pc' = [pc EXCEPT !["writer"] = "init"]
  /\ UNCHANGED <<proc, panicMsg, panicAt, logger, RecordCh, EndCh, ExitCh, now,
                 handles, pend, written, issued, initArg, initRet, plan, sent,
                 closedAt>>

\* err := logger.InitRotate(): always nil, so the loop goes on to the write
WriterInitRotate ==
  /\ Running /\ pc["writer"] = "init"
  /\ \E openOK \in Outcomes :
       LET ir == InitRotate(logger, inodes, handles, now, openOK)
       IN  /\ logger' = ir.logger
           /\ inodes' = ir.inodes
           /\ handles' = ir.handles
           /\ budget' = Spend(openOK)
  /\ cur' = [cur EXCEPT !.reopened = TRUE, !.at = now]
  /\ pc' = [pc EXCEPT !["writer"] = "write"]
  /\ UNCHANGED <<proc, panicMsg, panicAt, RecordCh, EndCh, ExitCh, now, pend,
                 written, issued, initArg, initRet, lastSweep, plan, sent,
                 closedAt>>

\* what the history keeps of a successful write
WriteEntry(c, f, ino, wt) ==
  [r |-> c.r, h |-> f, ino |-> ino, t |-> c.t, wt |-> wt, exp |-> c.exp,
   file |-> c.file, rotate |-> c.rotate, swept |-> c.swept,
   reopened |-> c.reopened]

\* fmt.Fprintf(logger.File, r.String()): an error calls ExitLogger, then returns
WriterWrite ==
  /\ Running /\ pc["writer"] = "write"
  /\ \E wrOK \in Outcomes :
       LET w == Fprintf(inodes, handles, logger.File, cur.r, wrOK)
       IN  /\ budget' = Spend(wrOK)
           /\ IF w.err
              THEN /\ pc' = [pc EXCEPT !["writer"] = "x_file"]
                   /\ UNCHANGED <<inodes, written, cur>>
              ELSE /\ inodes' = w.inodes
                   /\ written' = Append(written,
                        WriteEntry(cur, logger.File, handles[logger.File].ino, now))
                   /\ cur' = NoCur
                   /\ pc' = [pc EXCEPT !["writer"] = "recv"]
  /\ UNCHANGED <<proc, panicMsg, panicAt, logger, RecordCh, EndCh, ExitCh, now,
                 handles, pend, issued, initArg, initRet, lastSweep, plan, sent,
                 closedAt>>

\* ------------------------------------------------------------- ExitLogger
\* run by goroutine g, one shared-memory operation per step
ExitCloseFile(g) ==
  /\ Running /\ pc[g] = "x_file"
  /\ handles' = FileClose(handles, logger.File).handles
  /\ pc' = [pc EXCEPT ![g] = "x_end"]
  /\ UNCHANGED <<proc, panicMsg, panicAt, logger, RecordCh, EndCh, ExitCh, now,
                 inodes, cur, pend, written, issued, initArg, initRet, lastSweep,
                 budget, plan, sent, closedAt>>

ExitCloseEndCh(g) ==
  /\ Running /\ pc[g] = "x_end"
  /\ IF ClosePanics(EndCh)
     THEN Panic("close of closed channel", "EndCh") /\ UNCHANGED <<EndCh, pc>>
     ELSE /\ EndCh' = CloseChan(EndCh)
          /\ pc' = [pc EXCEPT ![g] = "x_exitch"]
          /\ UNCHANGED <<proc, panicMsg, panicAt>>
  /\ UNCHANGED <<logger, RecordCh, ExitCh, now, inodes, handles, cur, pend,
                 written, issued, initArg, initRet, lastSweep, budget, plan,
                 sent, closedAt>>

ExitCloseExitCh(g) ==
  /\ Running /\ pc[g] = "x_exitch"
  /\ IF ClosePanics(ExitCh)
     THEN Panic("close of closed channel", "ExitCh") /\ UNCHANGED <<ExitCh, pc>>
     ELSE /\ ExitCh' = CloseChan(ExitCh)
          /\ pc' = [pc EXCEPT ![g] = "x_record"]
          /\ UNCHANGED <<proc, panicMsg, panicAt>>
  /\ UNCHANGED <<logger, RecordCh, EndCh, now, inodes, handles, cur, pend,
                 written, issued, initArg, initRet, lastSweep, budget, plan,
                 sent, closedAt>>

ExitCloseRecordCh(g) ==
  /\ Running /\ pc[g] = "x_record"
  /\ IF ClosePanics(RecordCh)
     THEN Panic("close of closed channel", "RecordCh") /\ UNCHANGED <<RecordCh, pc>>
     ELSE /\ RecordCh' = CloseChan(RecordCh)
          /\ pc' = [pc EXCEPT ![g] = "x_osexit"]
          /\ UNCHANGED <<proc, panicMsg, panicAt>>
  /\ UNCHANGED <<logger, EndCh, ExitCh, now, inodes, handles, cur, pend, written,
                 issued, initArg, initRet, lastSweep, budget, plan, sent,
                 closedAt>>

\* os.Exit(0)
ExitOsExit(g) ==
  /\ Running /\ pc[g] = "x_osexit"
  /\ proc' = "exited"
  /\ UNCHANGED <<panicMsg, panicAt, logger, RecordCh, EndCh, ExitCh, now, inodes,
                 handles, pc, cur, pend, written, issued, initArg, initRet,
                 lastSweep, budget, plan, sent, closedAt>>

\* ------------------------------------------------- the two signal handlers
\* for range logger.ExitCh { logger.ExitLogger() }
ExitRecv ==
  /\ Running /\ pc["exith"] = "recv"
  /\ \/ /\ CanRecv(ExitCh)
        /\ ExitCh' = RecvRest(ExitCh)
        /\ pc' = [pc EXCEPT !["exith"] = "x_file"]
     \/ /\ RangeEnds(ExitCh)
        /\ pc' = [pc EXCEPT !["exith"] = "done"]
        /\ UNCHANGED ExitCh
  /\ UNCHANGED <<proc, panicMsg, panicAt, logger, RecordCh, EndCh, now, inodes,
                 handles, cur, pend, written, issued, initArg, initRet,
                 lastSweep, budget, plan, sent, closedAt>>

\* for range logger.EndCh { logger.EndFile() }
EndRecv ==
  /\ Running /\ pc["endh"] = "recv"
  /\ \/ /\ CanRecv(EndCh)
        /\ EndCh' = RecvRest(EndCh)
        /\ pc' = [pc EXCEPT !["endh"] = "e_close"]
     \/ /\ RangeEnds(EndCh)
        /\ pc' = [pc EXCEPT !["endh"] = "done"]
        /\ UNCHANGED EndCh
  /\ UNCHANGED <<proc, panicMsg, panicAt, logger, RecordCh, ExitCh, now, inodes,
                 handles, cur, pend, written, issued, initArg, initRet,
                 lastSweep, budget, plan, sent, closedAt>>

\* EndFile: err := l.File.Close()
EndFileClose ==
  /\ Running /\ pc["endh"] = "e_close"
  /\ handles' = FileClose(handles, logger.File).handles
  /\ pc' = [pc EXCEPT !["endh"] = "e_init"]
  /\ UNCHANGED <<proc, panicMsg, panicAt, logger, RecordCh, EndCh, ExitCh, now,
                 inodes, cur, pend, written, issued, initArg, initRet, lastSweep,
                 budget, plan, sent, closedAt>>

\* EndFile: err = l.InitRotate()
EndFileInitRotate ==
  /\ Running /\ pc["endh"] = "e_init"
  /\ \E openOK \in Outcomes :
       LET ir == InitRotate(logger, inodes, handles, now, openOK)
       IN  /\ logger' = ir.logger
           /\ inodes' = ir.inodes
           /\ handles' = ir.handles
           /\ budget' = Spend(openOK)
  /\ pc' = [pc EXCEPT !["endh"] = "recv"]
  /\ UNCHANGED <<proc, panicMsg, panicAt, RecordCh, EndCh, ExitCh, now, cur,
                 pend, written, issued, initArg, initRet, lastSweep, plan, sent,
                 closedAt>>

\* ------------------------------------------------------------ specification
Next ==
  \/ InitLoggerCall
  \/ Tick
  \/ \E c \in Producers : Debugf(c)
  \/ \E c \in Producers : Infof(c)
  \/ \E c \in Producers : Warnf(c)
  \/ \E c \in Producers : Errorf(c)
  \/ \E c \in Producers : SendRecord(c)
  \/ \E c \in Controllers : Close(c)
  \/ \E c \in Controllers : SendExit(c)
  \/ \E c \in Controllers : SignalEnd(c)
  \/ \E c \in Controllers : SendEnd(c)
  \/ WriterRecv
  \/ WriterSweep
  \/ WriterInitRotate
  \/ WriterWrite
  \/ \E g \in {"writer", "exith"} : ExitCloseFile(g)
  \/ \E g \in {"writer", "exith"} : ExitCloseEndCh(g)
  \/ \E g \in {"writer", "exith"} : ExitCloseExitCh(g)
  \/ \E g \in {"writer", "exith"} : ExitCloseRecordCh(g)
  \/ \E g \in {"writer", "exith"} : ExitOsExit(g)
  \/ ExitRecv
  \/ EndRecv
  \/ EndFileClose
  \/ EndFileInitRotate

Spec == Init /\ [][Next]_vars

\* ----------------------------------------- states after a successful start
\* The state InitLogger(when, k, level) leaves when called at time t in a
\* directory ins, every system call succeeding, and the producers having sent
\* the records q since: the start of the behaviours that look at one part of
\* the logger at a larger size.
StartedLevel(level, when, k, ins, t, q, plans, budgets) ==
  LET l0 == NewLogger(when, k, level)
      ir == InitRotate([l0 EXCEPT !.Regexp = GetRegexp(l0).reg], ins, <<>>, t, TRUE)
  IN  /\ proc = "running" /\ panicMsg = "none" /\ panicAt = "none"
      /\ logger = ir.logger /\ inodes = ir.inodes /\ handles = ir.handles
      /\ RecordCh = [MakeChan EXCEPT !.buf = q]
      /\ EndCh = MakeChan /\ ExitCh = MakeChan
      /\ now = t
      /\ pc = [g \in Goroutines |-> IF g \in Callers THEN "idle" ELSE "recv"]
      /\ cur = NoCur
      /\ pend = [c \in Producers |-> NoRecord]
      /\ written = <<>> /\ sent = q /\ closedAt = -1
      /\ issued = [c \in Producers |-> Len(q)]
      /\ plan \in [Producers -> plans]
      /\ budget \in budgets
      /\ initArg = when /\ initRet = "ok"
      /\ lastSweep = NoSweep

StartedWith(when, k, ins, t, q, plans, budgets) ==
  StartedLevel(LevelInfo, when, k, ins, t, q, plans, budgets)

\* --- the retention sweep over many directories
\* the name of the file of the window that expires at e
WindowFile(l, e) == GetAbsoluteFilePath([l EXCEPT !.ExpiryTs = e])
\* a name of the same base in the format of another granularity
OtherKindFile(l) ==
  l.FileName \o <<95>>
    \o (IF l.When = "D" THEN FormatHour(l.WhenInterval) ELSE FormatDay(l.WhenInterval))
    \o <<46, 108, 111, 103>>
\* entries a directory may hold when the logger starts in the fourth window:
\* files of the first, third and fifth window, a directory named like the file
\* of the second, a file of another base name, a file of another granularity
SweepUniverse(l) ==
  LET I == l.WhenInterval IN
  << MkFile(WindowFile(l, I)), MkDir(WindowFile(l, 2 * I)),
     MkFile(WindowFile(l, 3 * I)), MkFile(WindowFile(l, 5 * I)),
     MkFile(<<98>> \o Tail(WindowFile(l, I))), MkFile(OtherKindFile(l)) >>
Pick(u, S) == LET RECURSIVE P(_)
                  P(n) == IF n = 0 THEN <<>>
                          ELSE IF n \in S THEN Append(P(n - 1), u[n]) ELSE P(n - 1)
              IN  P(Len(u))

SweepInit ==
  \E when \in {"M", "H", "D"}, k \in 0..(MaxBackup + 1) :
    LET l == NewLogger(when, k, LevelInfo)
        u == SweepUniverse(l)
    IN  \E S \in SUBSET (1..Len(u)) :
          StartedWith(when, k, Pick(u, S), 3 * l.WhenInterval + 1, <<>>, Plans,
                      {[ticks |-> 1, closes |-> 0, ends |-> 0, faults |-> 0]})

NextSweep ==
  \/ Tick
  \/ \E c \in Producers : Debugf(c)
  \/ \E c \in Producers : Infof(c)
  \/ \E c \in Producers : Warnf(c)
  \/ \E c \in Producers : Errorf(c)
  \/ \E c \in Producers : SendRecord(c)
  \/ WriterRecv
  \/ WriterSweep
  \/ WriterInitRotate
  \/ WriterWrite

SpecSweep == SweepInit /\ [][NextSweep]_vars

\* --- the record queue at its capacity
\* the producer has sent RecordChCap - 1 records the writer has not yet taken
QueueBacklog == [i \in 1..(RecordChCap - 1) |->
                   [RLevel |-> LevelInfo, by |-> "p1", seq |-> i]]

QueueInit ==
  \E ins \in InitDirs :
    StartedWith("M", MaxBackup, ins, 0, QueueBacklog, Plans,
                {[ticks |-> 0, closes |-> 0, ends |-> 0, faults |-> 0]})

NextQueue ==
  \/ \E c \in Producers : Debugf(c)
  \/ \E c \in Producers : Infof(c)
  \/ \E c \in Producers : Warnf(c)
  \/ \E c \in Producers : Errorf(c)
  \/ \E c \in Producers : SendRecord(c)
  \/ WriterRecv
  \/ WriterWrite

SpecQueue == QueueInit /\ [][NextQueue]_vars

\* --- the writer goroutine is scheduled whenever it can take a step
WriterNext ==
  \/ WriterRecv \/ WriterSweep \/ WriterInitRotate \/ WriterWrite
  \/ ExitCloseFile("writer") \/ ExitCloseEndCh("writer")
  \/ ExitCloseExitCh("writer") \/ ExitCloseRecordCh("writer")
  \/ ExitOsExit("writer")

\* a started logger, and an environment that shuts it down after a failing
\* system call or after ending the file by hand, or that ends the file by hand
\* while the window expires
LiveInit ==
  \E ins \in InitDirs :
    StartedWith("M", 0, ins, 0, <<>>, Plans,
                { [ticks |-> 0, closes |-> 1, ends |-> 0, faults |-> MaxFaults],
                  [ticks |-> 0, closes |-> 1, ends |-> MaxEnds, faults |-> 0],
                  [ticks |-> 1, closes |-> 0, ends |-> MaxEnds, faults |-> 0] })

NextLive ==
  \/ Tick
  \/ \E c \in Producers : Debugf(c)
  \/ \E c \in Producers : Infof(c)
  \/ \E c \in Producers : Warnf(c)
  \/ \E c \in Producers : Errorf(c)
  \/ \E c \in Producers : SendRecord(c)
  \/ \E c \in Controllers : Close(c)
  \/ \E c \in Controllers : SendExit(c)
  \/ \E c \in Controllers : SignalEnd(c)
  \/ \E c \in Controllers : SendEnd(c)
  \/ WriterNext
  \/ \E g \in {"exith"} : ExitCloseFile(g)
  \/ \E g \in {"exith"} : ExitCloseEndCh(g)
  \/ \E g \in {"exith"} : ExitCloseExitCh(g)
  \/ \E g \in {"exith"} : ExitCloseRecordCh(g)
  \/ \E g \in {"exith"} : ExitOsExit(g)
  \/ ExitRecv
  \/ EndRecv
  \/ EndFileClose
  \/ EndFileInitRotate

SpecLive == LiveInit /\ [][NextLive]_vars /\ WF_vars(WriterNext)

\* --- retention with the file ended by hand
\* directories that hold at most k files of the active pattern when the logger
\* starts, next to the entries the pattern does not match
RetentionDirs(l, k) ==
  LET u == SweepUniverse(l)
  IN  {Pick(u, S \cup {2, 5, 6}) :
         S \in {T \in SUBSET {1, 3, 4} : Cardinality(T) <= k}}

RetentionInit ==
  \E when \in {"M", "H", "D"}, k \in 0..MaxBackup :
    LET l == NewLogger(when, k, LevelInfo)
    IN  \E ins \in RetentionDirs(l, k) :
          StartedWith(when, k, ins, 3 * l.WhenInterval + 1, <<>>, Plans,
                      {[ticks |-> 1, closes |-> 0, ends |-> MaxEnds, faults |-> 0]})

NextRetention ==
  \/ Tick
  \/ \E c \in Producers : Debugf(c)
  \/ \E c \in Producers : Infof(c)
  \/ \E c \in Producers : Warnf(c)
  \/ \E c \in Producers : Errorf(c)
  \/ \E c \in Producers : SendRecord(c)
  \/ \E c \in Controllers : SignalEnd(c)
  \/ \E c \in Controllers : SendEnd(c)
  \/ WriterNext
  \/ EndRecv
  \/ EndFileClose
  \/ EndFileInitRotate

SpecRetention == RetentionInit /\ [][NextRetention]_vars

\* --- every configured level against every record level
LevelInit ==
  \E level \in Levels, ins \in InitDirs :
    StartedLevel(level, "M", MaxBackup, ins, 0, <<>>,
                 {LevelPlan(s) : s \in Levels},
                 {[ticks |-> 1, closes |-> 0, ends |-> 0, faults |-> 0]})

\* the producer's send and the writer goroutine are scheduled when they can step
SpecLevel ==
  /\ LevelInit /\ [][NextSweep]_vars
  /\ WF_vars(WriterNext)
  /\ WF_vars(\E c \in Producers : SendRecord(c))

\* --- the expiry computation over the four intervals
\* times in the windows 0..MaxWindows: at and next to the boundaries
ExpiryTimes(I) == {w * I + d : w \in 0..MaxWindows,
                               d \in {x \in {0, 1, 59, I - 61, I - 1} : x \in 0..(I - 1)}}

\* the logger InitLogger has built, before its InitRotate (ExpiryTs is 0)
ExpiryInit ==
  \E when \in {"M", "H", "D", "W"} :
    \E t \in ExpiryTimes(GetExpiryInterval(when)) :
      /\ proc = "running" /\ panicMsg = "none" /\ panicAt = "none"
      /\ logger = NewLogger(when, 0, LevelInfo)
      /\ inodes = <<>> /\ handles = <<>>
      /\ RecordCh = MakeChan /\ EndCh = MakeChan /\ ExitCh = MakeChan
      /\ now = t
      /\ pc = [g \in Goroutines |-> IF g = "writer" THEN "init" ELSE "idle"]
      /\ cur = [NoCur EXCEPT !.t = t]
      /\ pend = [c \in Producers |-> NoRecord]
      /\ written = <<>> /\ sent = <<>> /\ closedAt = -1
      /\ issued = [c \in Producers |-> 0]
      /\ plan = [c \in Producers |-> <<>>]
      /\ budget = [ticks |-> MaxTicks, closes |-> 0, ends |-> 0, faults |-> 0]
      /\ initArg = when /\ initRet = "none"
      /\ lastSweep = NoSweep

\* IsRotate: the expiry test at the current time
ExpiryCheck ==
  /\ pc["writer"] = "recv"
  /\ cur' = [NoCur EXCEPT !.t = now, !.exp = logger.ExpiryTs,
                          !.rotate = IsRotate(logger, now)]
  /\ pc' = [pc EXCEPT !["writer"] = IF IsRotate(logger, now) THEN "init" ELSE "recv"]
  /\ UNCHANGED <<proc, panicMsg, panicAt, logger, RecordCh, EndCh, ExitCh, now,
                 inodes, handles, pend, written, issued, initArg, initRet,
                 lastSweep, budget, plan, sent, closedAt>>

\* UpdateExpiryTs: the expiry is recomputed at the current time
ExpiryUpdate ==
  /\ pc["writer"] = "init"
  /\ logger' = UpdateExpiryTs(logger, now)
  /\ cur' = [cur EXCEPT !.reopened = TRUE, !.at = now]
  /\ pc' = [pc EXCEPT !["writer"] = "recv"]
  /\ UNCHANGED <<proc, panicMsg, panicAt, RecordCh, EndCh, ExitCh, now, inodes,
                 handles, pend, written, issued, initArg, initRet, lastSweep,
                 budget, plan, sent, closedAt>>

NextExpiry == Tick \/ ExpiryCheck \/ ExpiryUpdate

SpecExpiry == ExpiryInit /\ [][NextExpiry]_vars

\* ------------------------------------------------------------------ claims
WrittenRecords == [i \in 1..Len(written) |-> written[i].r]
IsPrefix(a, b) == Len(a) <= Len(b) /\ \A i \in 1..Len(a) : a[i] = b[i]
\* the records a file holds, over all files of the directory and removed ones
ContentTotal == LET RECURSIVE Sum(_)
                    Sum(n) == IF n = 0 THEN 0
                              ELSE Len(inodes[n].content) + Sum(n - 1)
                IN  Sum(Len(inodes))

\* C1: the records of a producer are sent in the order of its calls, and the
\* records written so far are a prefix of the records sent: none reordered,
\* none written twice, each one appended to the file it was written to.
C1_WrittenIsPrefixOfSent ==
  /\ \A i \in 1..Len(sent) : sent[i].by = "p1" /\ sent[i].seq = i
  /\ IsPrefix(WrittenRecords, sent)
  /\ ContentTotal = Len(written)
  /\ \A i \in 1..Len(written) :
       \E j \in 1..Len(inodes[written[i].ino].content) :
          inodes[written[i].ino].content[j] = written[i].r

\* C1 witness: two records written in order, the second after a rotation
C1_Witness ==
  /\ Len(written) >= 2
  /\ written[1].r.seq = 1 /\ written[2].r.seq = 2
  /\ written[2].rotate /\ written[2].ino # written[1].ino

\* C2: when the process has exited after Close(), every record sent before the
\* first Close() has been written.
C2_CloseFlushesPending ==
  (proc = "exited" /\ closedAt >= 0) => Len(written) >= closedAt

\* C3: no producer sends on RecordCh, and no caller of Close() sends on ExitCh,
\* after ExitLogger has closed the channel.
C3_NoSendOnClosedChannel ==
  ~(panicMsg = "send on closed channel" /\ panicAt \in {"RecordCh", "ExitCh"})

\* C4: a record processed at t < T is written without rotation; one processed
\* at t >= T is written after the sweep and the reopen, to the new file.
C4_RotateAtOrAfterExpiry ==
  \A i \in 1..Len(written) :
    LET w == written[i] IN
    /\ w.t < w.exp => ~w.rotate /\ ~w.swept /\ ~w.reopened
    /\ w.t >= w.exp => w.rotate /\ w.swept /\ w.reopened

\* C6: InitLogger called with a valid token returns a logger and no error,
\* the process running and the three goroutines started.
C6_ValidWhenSucceeds ==
  (initRet # "none" /\ initArg \in {"M", "H", "D", "W"}) =>
     /\ initRet = "ok"
     /\ ~logger.isNil

\* C7: InitLogger called with an invalid token returns an error and changes
\* nothing: no logger, no channel, no file or handle, no goroutine, no exit.
C7_InvalidWhenNoEffect ==
  (initRet # "none" /\ initArg \notin {"M", "H", "D", "W"}) =>
     /\ initRet = "err"
     /\ proc = "running"
     /\ logger = NilLogger
     /\ RecordCh = NilChan /\ EndCh = NilChan /\ ExitCh = NilChan
     /\ inodes \in InitDirs /\ handles = <<>>
     /\ \A g \in Handlers : pc[g] = "none"

C7_Witness == initRet = "err" /\ initArg = "X"

\* C9: a caller of Close() is never blocked on the send.
C9_CloseNeverBlocks ==
  \A c \in Controllers :
    (Running /\ pc[c] = "closing") =>
       (CanSend(ExitCh, ExitChCap) \/ SendPanics(ExitCh))

Max(a, b) == IF a > b THEN a ELSE b
Min(a, b) == IF a < b THEN a ELSE b
SweepMatching == {e \in lastSweep.before :
                    ~e.isDir /\ MatchString(lastSweep.reg, e.name)}
SweepDeleted == lastSweep.before \ lastSweep.after

\* C5: a sweep whose removals succeed deletes exactly max(0, m - k) entries, all
\* of them matching files and each smaller than every matching file that
\* stays; min(m, k) matching files stay; nothing else is touched or added.
C5_SweepKeepsNewest ==
  (lastSweep.ran /\ lastSweep.rmOK) =>
    LET m == Cardinality(SweepMatching)
        k == lastSweep.k
    IN  /\ k >= 0
        /\ Cardinality(SweepDeleted) = Max(0, m - k)
        /\ SweepDeleted \subseteq SweepMatching
        /\ lastSweep.after \subseteq lastSweep.before
        /\ Cardinality(SweepMatching \ SweepDeleted) = Min(m, k)
        /\ \A d \in SweepDeleted : \A r \in SweepMatching \ SweepDeleted :
             StrLess(d.name, r.name)

\* C5 witness: a sweep of a directory with a subdirectory and a foreign file
\* that deleted some matching files and kept one
C5_Witness ==
  /\ lastSweep.ran /\ lastSweep.k = 1
  /\ Cardinality(SweepMatching) >= 3
  /\ Cardinality(SweepDeleted) >= 2
  /\ \E e \in lastSweep.after : e.isDir
  /\ \E e \in lastSweep.after : ~e.isDir /\ ~MatchString(lastSweep.reg, e.name)

\* the records between the channel and the file: the one the writer holds
InFlight == IF pc["writer"] \in {"sweep", "init", "write"} THEN <<cur.r>> ELSE <<>>

\* C8: RecordCh never holds more than RecordChCap records; a send on the full
\* channel does not complete; every record sent is written, held by the writer
\* or still in the channel, in the order sent.
C8_QueueBounded ==
  /\ [](Len(RecordCh.buf) <= RecordChCap)
  /\ [](WrittenRecords \o InFlight \o RecordCh.buf = sent)
  /\ [][\A c \in Producers :
          (pc[c] = "send" /\ Len(RecordCh.buf) = RecordChCap /\ ~RecordCh.closed)
             => (pc'[c] = "send" /\ sent' = sent)]_vars

\* C8 witness: a producer waits to send on the full channel
C8_Witness ==
  /\ Running /\ pc["p1"] = "send"
  /\ Len(RecordCh.buf) = RecordChCap /\ ~RecordCh.closed

\* the expiry UpdateExpiryTs gives the window that holds time t
WindowOf(t) == t - (t % logger.WhenInterval) + logger.WhenInterval
\* the inodes whose content holds record r
Holding(r) == {n \in 1..Len(inodes) :
                 \E j \in 1..Len(inodes[n].content) : inodes[n].content[j] = r}

\* C11: while no file has been removed, every written record lies in exactly
\* one file, the file of the window in which it was processed (between the
\* expiry test made for it and its write).
C11_RotationPartitionsByWindow ==
  (initRet = "ok" /\ \A n \in 1..Len(inodes) : inodes[n].linked) =>
    \A i \in 1..Len(written) :
      LET w == written[i] IN
      /\ Holding(w.r) = {w.ino}
      /\ \E t \in w.t..w.wt : inodes[w.ino].name = WindowFile(logger, WindowOf(t))

\* the handles that are open
OpenHandles == {h \in 1..Len(handles) : ~handles[h].closed}
\* the goroutines inside ExitLogger
InExitLogger == {g \in Handlers :
                   pc[g] \in {"x_file", "x_end", "x_exitch", "x_record", "x_osexit"}}

\* C12: the logger holds at most one open file handle.
C12_AtMostOneOpenHandle == Cardinality(OpenHandles) <= 1

\* C13: the writer is never about to write through a handle another goroutine
\* has closed, and never reads or replaces File while EndFile is between its
\* Close and its InitRotate.
C13_NoWriteDuringReplacement ==
  Running =>
    /\ ~(pc["writer"] = "write" /\ logger.File # 0 /\ handles[logger.File].closed)
    /\ ~(pc["writer"] \in {"init", "write"} /\ pc["endh"] \in {"e_close", "e_init"})

\* C14: no file the sweep has removed is referred to by an open handle.
C14_SweepSparesOpenFiles ==
  \A h \in OpenHandles : inodes[handles[h].ino].linked

\* C15: a failed directory listing in the sweep does not send the writer into
\* ExitLogger: a writer in ExitLogger after a rotation has completed its sweep.
C15_CleanupErrorsNotFatal ==
  ("writer" \in InExitLogger /\ cur.rotate) => cur.swept

\* C16: a started logger whose File is nil after a failed open is shutting
\* down: it is not waiting for records, and InitLogger has returned no handle.
C16_OpenFailureShutsDown ==
  (Running /\ initRet = "ok" /\ logger.File = 0) => InExitLogger # {}

\* C19: ExitLogger is run by at most one goroutine and no channel is closed twice.
C19_ShutdownRunsOnce ==
  /\ Cardinality(InExitLogger) <= 1
  /\ panicMsg # "close of closed channel"

\* C17: an expiry computed at time t is a multiple of the interval I with
\* t < expiry <= t + I, so no multiple of I lies between t and the expiry; the
\* expiry computed in a rotation exceeds the time of the rotation's expiry test.
C17_ExpiryIsNextBoundary ==
  cur.reopened =>
    LET e == logger.ExpiryTs
        I == logger.WhenInterval
        t == cur.at
    IN  /\ I \in {60, 3600, 86400, 604800}
        /\ e % I = 0
        /\ t < e /\ e <= t + I
        /\ e - I <= t
        /\ cur.rotate => (cur.t <= t /\ e > cur.t)

\* C17 witness: the weekly expiry recomputed after its window had expired
C17_Witness ==
  /\ cur.reopened /\ cur.rotate /\ logger.When = "W"
  /\ cur.t > cur.exp /\ logger.ExpiryTs > cur.exp

\* the files of FileDir the active pattern matches
MatchingFiles == {e \in ReadDir(inodes) :
                    ~e.isDir /\ MatchString(logger.Regexp, e.name)}

\* C20: the directory never holds more than backupCount + 1 files of the
\* active pattern.
C20_RetentionBoundsFiles ==
  Cardinality(MatchingFiles) <= logger.BackupCount + 1

HasSeq(recs, q) == \E i \in 1..Len(recs) : recs[i].seq = q
SentBy(c) == SelectSeq(sent, LAMBDA r : r.by = c)

\* C18: whatever the configured level, every call of an enqueue method builds a
\* record of the method's level and sends it, every record sent is written,
\* held by the writer or in RecordCh, and every record built is in the end
\* written; the configured level stays as InitLogger set it.
C18_LevelNeverFilters ==
  /\ [](\A c \in Producers :
          /\ issued[c] + Len(plan[c]) = MaxRecords
          /\ Len(SentBy(c)) + (IF pc[c] = "send" THEN 1 ELSE 0) = issued[c])
  /\ [](sent = WrittenRecords \o InFlight \o RecordCh.buf)
  /\ [][/\ logger'.Level = logger.Level
        /\ \A c \in Producers :
             plan'[c] # plan[c] =>
               (pc'[c] = "send" /\ pend'[c].RLevel = Head(plan[c]))]_vars
  /\ \A q \in 1..MaxRecords :
       (\E c \in Producers : issued[c] >= q) ~> HasSeq(WrittenRecords, q)

\* C18 witness: a logger configured at Error has written a Debug record
C18_Witness ==
  /\ logger.Level = LevelError /\ Len(written) = MaxRecords
  /\ written[1].r.RLevel = LevelDebug /\ written[1].r.RLevel < logger.Level

\* C10: with the writer goroutine scheduled fairly, a record in RecordCh is
\* eventually written, or the process has ended.
C10_QueuedEventuallyWritten ==
  \A q \in 1..MaxRecords :
    HasSeq(RecordCh.buf, q) ~> (~Running \/ HasSeq(WrittenRecords, q))

\* C10 witness: a record has been written while the next one waits in RecordCh
C10_Witness ==
  /\ Running /\ HasSeq(WrittenRecords, 1) /\ HasSeq(RecordCh.buf, 2)
====
